---- MODULE Spec2Model ----
(***************************************************************************)
(* Model of football_commentator.py: the AudioStreamer coroutine           *)
(* stream_to_gemini, the periodic commentary coroutine run_commentary, the *)
(* on_track_added handler of create_agent and join_call, all running on    *)
(* one asyncio event loop.  A coroutine runs without interruption between  *)
(* two of its awaits; other coroutines, the clock and the environment act  *)
(* only while every modelled coroutine is parked at an await.              *)
(***************************************************************************)
EXTENDS Integers, Sequences, FiniteSets, TLC

VARIABLES
    video_path,       \* VIDEO_PATH: "" or the path of the media file
    media,            \* what the setup finds at the path: "missing" (av.open raises),
                      \* "broken" (opens, then the stream lookup or the resampler
                      \* raises), "noaudio", "audio"
    connected,        \* agent.llm.connected
    session,          \* join_call: "joined" until agent.finish() returns, then "ended"
    video_task,       \* create_agent.video_task: 0 is None, n is the n-th feeder task
    commentary_task,  \* create_agent.commentary_task: 0 is None, n is the n-th task
    feeder_tasks,     \* number of asyncio.create_task(stream_to_gemini) calls
    commentary_tasks, \* number of asyncio.create_task(run_commentary) calls
    video_events,     \* number of video TrackAddedEvents handled
    last_track,       \* track_type of the last TrackAddedEvent handled, 0 before any
    stopped,          \* AudioStreamer._stopped
    stop_frame,       \* <<packet, frame>> being sent when stop() was called
    f_pc,             \* position of stream_to_gemini
    f_result,         \* how the feeder task ended: "", "returned", "cancelled", "error"
    opens,            \* successful av.open calls
    closes,           \* container.close calls
    pos,              \* read position of the container: index of the next packet
    fi,               \* index of the current frame of the current packet
    ci,               \* index of the current resampled segment of the current frame
    pass,             \* number of container.seek(0) calls completed
    faults,           \* exceptions raised inside the feeder loop
    backoffs,         \* asyncio.sleep(1) calls started by the feeder
    sent,             \* chunks handed to send_realtime_input in this pass, in order
    dropped,          \* chunks of this pass produced while the sink was not connected
    everDown,         \* the sink was disconnected at some time since the feeder started
    detections,       \* detection events emitted while the agent ran
    now,              \* seconds on the event loop's clock since run_commentary began
    c_pc,             \* position of run_commentary
    c_result,         \* how the commentary task ended
    c_wake,           \* due time of the asyncio.sleep run_commentary is parked in
    c_faults,         \* exceptions raised by agent.simple_response
    calls,            \* simple_response calls started: <<kind, time, connected>>
    delivered,        \* simple_response calls returned: <<kind, time>>
    slow              \* some simple_response call took time to return

orch_vars == <<video_task, commentary_task, feeder_tasks, commentary_tasks, video_events,
               last_track>>
feeder_vars == <<stopped, stop_frame, f_pc, f_result, opens, closes, pos, fi, ci, pass,
                 faults, backoffs, sent, dropped>>
comm_vars == <<c_pc, c_result, c_wake, c_faults, calls, delivered, slow>>
env_vars == <<video_path, media, connected, session, everDown, detections, now>>
vars == <<orch_vars, feeder_vars, comm_vars, env_vars>>

(***************************************************************************)
(* Bounds of the model.                                                    *)
(***************************************************************************)
MaxEvents == 2    \* video track events explored
MaxPasses == 2    \* seeks to the start explored
MaxFaults == 2    \* feeder faults explored
MaxCFaults == 1   \* prompt-delivery faults explored
MaxTime == 16     \* seconds of the clock explored
MaxDetections == 5  \* detection events explored

(***************************************************************************)
(* The media source: packets of frames of resampled segments.  A segment   *)
(* is named by its position in playback order.                             *)
(***************************************************************************)
AudioPackets == << << <<1, 2>>, <<3>> >>, << <<4>> >> >>

RECURSIVE Concat(_)
Concat(ss) == IF ss = <<>> THEN <<>> ELSE Head(ss) \o Concat(Tail(ss))

RECURSIVE FlattenPackets(_)
FlattenPackets(ps) ==
    IF ps = <<>> THEN <<>> ELSE Concat(Head(ps)) \o FlattenPackets(Tail(ps))

\* c1..cN: the chunk sequence one pass over the source yields
Chunks == FlattenPackets(AudioPackets)

NPackets == Len(AudioPackets)
Frames(p) == AudioPackets[p]
Segments(p, f) == AudioPackets[p][f]

(***************************************************************************)
(* TrackAddedEvent.track_type                                              *)
(***************************************************************************)
TRACK_AUDIO == 1
TRACK_VIDEO == 2

\* streamer = AudioStreamer(video_path) if video_path else None
HasStreamer == video_path # ""

\* The awaits of stream_to_gemini, and the states in which its task is not running.
FeederParked == f_pc \in {"none", "created", "send", "yield", "backoff", "done"}
FeederAwaiting == f_pc \in {"created", "send", "yield", "backoff"}

\* The awaits of run_commentary.
CommentaryAwaiting ==
    c_pc \in {"created", "startup", "opening", "settle", "regular", "interval", "backoff"}
CommentarySleeping == c_pc \in {"startup", "settle", "interval", "backoff"}

\* The arguments of the asyncio.sleep calls of run_commentary.
STARTUP_DELAY == 3
SETTLE_DELAY == 5
INTERVAL == 4
COMMENTARY_BACKOFF == 2

\* What a configured path can hold, by the outcome of the statements before the try.
MediaKinds == {"missing", "broken", "noaudio", "audio"}

Init ==
    /\ video_path \in {"", "match.mp4"}
    /\ media \in IF video_path = "" THEN {"missing"} ELSE MediaKinds
    /\ connected \in BOOLEAN
    /\ session = "joined"
    /\ video_task = 0
    /\ commentary_task = 0
    /\ feeder_tasks = 0
    /\ commentary_tasks = 0
    /\ video_events = 0
    /\ last_track = 0
    /\ stopped = FALSE
    /\ stop_frame = <<0, 0>>
    /\ f_pc = "none"
    /\ f_result = ""
    /\ opens = 0
    /\ closes = 0
    /\ pos = 1
    /\ fi = 0
    /\ ci = 0
    /\ pass = 0
    /\ faults = 0
    /\ backoffs = 0
    /\ sent = <<>>
    /\ dropped = {}
    /\ everDown = ~connected
    /\ detections = 0
    /\ now = 0
    /\ c_pc = "none"
    /\ c_result = ""
    /\ c_wake = 0
    /\ c_faults = 0
    /\ calls = <<>>
    /\ delivered = <<>>
    /\ slow = FALSE

(***************************************************************************)
(* create_agent.on_track_added: a coroutine without awaits, so one step.   *)
(***************************************************************************)
\* A mutant of ShouldStartFeeder: the handle is not tested.
ShouldStartFeederAlways == HasStreamer

\* A mutant of ShouldStartFeeder: a finished task counts as no task.
ShouldStartFeederUnlessRunning == HasStreamer /\ (video_task = 0 \/ f_pc = "done")

\* if streamer and video_task is None
ShouldStartFeeder == HasStreamer /\ video_task = 0

\* A mutant of ShouldStartCommentary: commentary is tied to the streamer.
ShouldStartCommentaryWithStreamer == HasStreamer /\ commentary_task = 0

\* if commentary_task is None
ShouldStartCommentary == commentary_task = 0

CreateFeederTask ==
    /\ feeder_tasks' = feeder_tasks + 1
    /\ video_task' = feeder_tasks + 1
    /\ f_pc' = "created"

CreateCommentaryTask ==
    /\ commentary_tasks' = commentary_tasks + 1
    /\ commentary_task' = commentary_tasks + 1
    /\ c_pc' = "created"

\* A mutant of IgnoredTrack: the test names the audio track type instead.
IgnoredTrackWrongType(track_type) == track_type # TRACK_AUDIO

\* if event.track_type != 2: return
IgnoredTrack(track_type) == track_type # TRACK_VIDEO

on_track_added(track_type) ==
    /\ session = "joined"
    /\ FeederParked
    /\ last_track' = track_type
    /\ IF IgnoredTrack(track_type)
       THEN UNCHANGED <<video_task, commentary_task, feeder_tasks, commentary_tasks,
                        video_events, f_pc, c_pc>>
       ELSE /\ video_events < MaxEvents
            /\ video_events' = video_events + 1
            /\ IF ShouldStartFeeder
               THEN CreateFeederTask
               ELSE UNCHANGED <<feeder_tasks, video_task, f_pc>>
            /\ IF ShouldStartCommentary
               THEN CreateCommentaryTask
               ELSE UNCHANGED <<commentary_tasks, commentary_task, c_pc>>
    /\ UNCHANGED <<stopped, stop_frame, f_result, opens, closes, pos, fi, ci, pass,
                   faults, backoffs, sent, dropped>>
    /\ UNCHANGED <<c_result, c_wake, c_faults, calls, delivered, slow>>
    /\ UNCHANGED env_vars

TrackAdded == \E track_type \in {TRACK_AUDIO, TRACK_VIDEO} : on_track_added(track_type)

(***************************************************************************)
(* join_call: agent.finish() returns and the async with block is left.     *)
(***************************************************************************)
join_call ==
    /\ session = "joined"
    /\ FeederParked
    /\ session' = "ended"
    /\ UNCHANGED <<video_path, media, connected, everDown, detections, now>>
    /\ UNCHANGED <<orch_vars, feeder_vars, comm_vars>>

(***************************************************************************)
(* AudioStreamer.stream_to_gemini                                          *)
(***************************************************************************)
\* The three ways a step of the feeder loop leaves the control state.
Goto(pc) ==
    /\ f_pc' = pc
    /\ UNCHANGED <<f_result, closes, faults, backoffs>>

\* A mutant of Except: the exception leaves the loop through the finally block.
ExceptPropagates ==
    /\ faults < MaxFaults
    /\ faults' = faults + 1
    /\ f_pc' = "done"
    /\ f_result' = "error"
    /\ closes' = closes + 1
    /\ UNCHANGED backoffs

\* except Exception: logger.error(...); await asyncio.sleep(1)
Except ==
    /\ faults < MaxFaults
    /\ faults' = faults + 1
    /\ backoffs' = backoffs + 1
    /\ f_pc' = "backoff"
    /\ UNCHANGED <<f_result, closes>>

\* finally: container.close()
Finally(result) ==
    /\ f_pc' = "done"
    /\ f_result' = result
    /\ closes' = closes + 1
    /\ UNCHANGED <<faults, backoffs>>

\* A mutant of NoAudioExit: the missing track is logged and the loop is entered.
NoAudioFallsThrough ==
    /\ f_pc' = "while"
    /\ UNCHANGED <<f_result, closes>>

\* if not audio_stream: logger.warning(...); container.close(); return
NoAudioExit ==
    /\ f_pc' = "done"
    /\ f_result' = "returned"
    /\ closes' = closes + 1

\* An exception of container.streams.audio or of AudioResampler(...): both are
\* before the try, so the error leaves the function past no handler and no finally.
SetupFault ==
    /\ f_pc' = "done"
    /\ f_result' = "error"
    /\ UNCHANGED closes

\* The task's first step: av.open, the audio stream lookup, the resampler.
FeederStart ==
    /\ f_pc = "created"
    /\ \/ /\ media = "missing"
          /\ f_pc' = "done"
          /\ f_result' = "error"
          /\ UNCHANGED <<opens, closes>>
       \/ /\ media = "broken"
          /\ opens' = opens + 1
          /\ SetupFault
       \/ /\ media = "noaudio"
          /\ opens' = opens + 1
          /\ NoAudioExit
       \/ /\ media = "audio"
          /\ opens' = opens + 1
          /\ f_pc' = "while"
          /\ UNCHANGED <<f_result, closes>>
    /\ UNCHANGED <<stopped, stop_frame, pos, fi, ci, pass, faults, backoffs,
                   sent, dropped>>
    /\ UNCHANGED <<orch_vars, comm_vars, env_vars>>

\* while not self._stopped
FeederWhile ==
    /\ f_pc = "while"
    /\ IF stopped THEN Finally("returned") ELSE Goto("demux")
    /\ UNCHANGED <<stopped, stop_frame, opens, pos, fi, ci, pass, sent, dropped>>
    /\ UNCHANGED <<orch_vars, comm_vars, env_vars>>

\* for packet in container.demux(audio_stream): if self._stopped: break
FeederDemux ==
    /\ f_pc = "demux"
    /\ \/ /\ Except
          /\ UNCHANGED <<pos, fi, ci>>
       \/ /\ pos > NPackets
          /\ Goto("seek")
          /\ UNCHANGED <<pos, fi, ci>>
       \/ /\ pos <= NPackets
          /\ pos' = pos + 1
          /\ fi' = 0
          /\ ci' = 0
          /\ IF stopped THEN Goto("seek") ELSE Goto("decode")
    /\ UNCHANGED <<stopped, stop_frame, opens, pass, sent, dropped>>
    /\ UNCHANGED <<orch_vars, comm_vars, env_vars>>

\* packet.decode()
FeederDecode ==
    /\ f_pc = "decode"
    /\ \/ /\ Except
          /\ UNCHANGED fi
       \/ /\ Goto("frame")
          /\ fi' = 1
    /\ UNCHANGED <<stopped, stop_frame, opens, pos, ci, pass, sent, dropped>>
    /\ UNCHANGED <<orch_vars, comm_vars, env_vars>>

\* A mutant of FeederFrame: no await asyncio.sleep(0.001) after a packet.
FeederFrameNoYield ==
    /\ f_pc = "frame"
    /\ IF fi > Len(Frames(pos - 1)) \/ stopped THEN Goto("demux") ELSE Goto("resample")
    /\ UNCHANGED <<stopped, stop_frame, opens, pos, fi, ci, pass, sent, dropped>>
    /\ UNCHANGED <<orch_vars, comm_vars, env_vars>>

\* A mutant of FeederFrame: the frame loop does not test the stop flag.
FeederFrameNoStopCheck ==
    /\ f_pc = "frame"
    /\ IF fi > Len(Frames(pos - 1)) THEN Goto("yield") ELSE Goto("resample")
    /\ UNCHANGED <<stopped, stop_frame, opens, pos, fi, ci, pass, sent, dropped>>
    /\ UNCHANGED <<orch_vars, comm_vars, env_vars>>

\* for frame in packet.decode(): if self._stopped: break
FeederFrame ==
    /\ f_pc = "frame"
    /\ IF fi > Len(Frames(pos - 1)) \/ stopped THEN Goto("yield") ELSE Goto("resample")
    /\ UNCHANGED <<stopped, stop_frame, opens, pos, fi, ci, pass, sent, dropped>>
    /\ UNCHANGED <<orch_vars, comm_vars, env_vars>>

\* audio_resampler.resample(frame)
FeederResample ==
    /\ f_pc = "resample"
    /\ \/ /\ Except
          /\ UNCHANGED ci
       \/ /\ Goto("chunk")
          /\ ci' = 1
    /\ UNCHANGED <<stopped, stop_frame, opens, pos, fi, pass, sent, dropped>>
    /\ UNCHANGED <<orch_vars, comm_vars, env_vars>>

\* A mutant of SinkReachable: the chunk is sent whatever the connection state.
SinkReachableAlways == TRUE

\* if agent.llm and agent.llm.connected
SinkReachable == connected

\* for resampled in ...: the conversion to bytes, the reachability check, the send call
FeederChunk ==
    /\ f_pc = "chunk"
    /\ IF ci > Len(Segments(pos - 1, fi))
       THEN /\ Goto("frame")
            /\ fi' = fi + 1
            /\ UNCHANGED <<ci, sent, dropped>>
       ELSE IF SinkReachable
            THEN /\ Goto("send")
                 /\ sent' = Append(sent, Segments(pos - 1, fi)[ci])
                 /\ UNCHANGED <<fi, ci, dropped>>
            ELSE /\ Goto("chunk")
                 /\ dropped' = dropped \cup {Segments(pos - 1, fi)[ci]}
                 /\ ci' = ci + 1
                 /\ UNCHANGED <<fi, sent>>
    /\ UNCHANGED <<stopped, stop_frame, opens, pos, pass>>
    /\ UNCHANGED <<orch_vars, comm_vars, env_vars>>

\* await agent.llm._session.send_realtime_input(audio=blob) returns or raises
FeederSend ==
    /\ f_pc = "send"
    /\ \/ /\ Except
          /\ UNCHANGED ci
       \/ /\ Goto("chunk")
          /\ ci' = ci + 1
    /\ UNCHANGED <<stopped, stop_frame, opens, pos, fi, pass, sent, dropped>>
    /\ UNCHANGED <<orch_vars, comm_vars, env_vars>>

\* await asyncio.sleep(0.001) returns
FeederYield ==
    /\ f_pc = "yield"
    /\ Goto("demux")
    /\ UNCHANGED <<stopped, stop_frame, opens, pos, fi, ci, pass, sent, dropped>>
    /\ UNCHANGED <<orch_vars, comm_vars, env_vars>>

\* A mutant of SeekTarget: the seek lands after the first packet.
SeekTargetSecond == 1 + 1

\* container.seek(0): the next packet demuxed is the first one
SeekTarget == 1

\* container.seek(0); logger.info("Audio looped")
FeederSeek ==
    /\ f_pc = "seek"
    /\ pass < MaxPasses \/ stopped
    /\ \/ /\ Except
          /\ UNCHANGED <<pos, pass, sent, dropped>>
       \/ /\ Goto("while")
          /\ pos' = SeekTarget
          /\ pass' = pass + 1
          /\ sent' = <<>>
          /\ dropped' = {}
    /\ UNCHANGED <<stopped, stop_frame, opens, fi, ci>>
    /\ UNCHANGED <<orch_vars, comm_vars, env_vars>>

\* container.seek(0) in the passes after the last one counted: the feeder loops on,
\* only the pass counter stays.
FeederSeekBeyond ==
    /\ f_pc = "seek"
    /\ pass = MaxPasses
    /\ ~stopped
    /\ Goto("while")
    /\ pos' = SeekTarget
    /\ sent' = <<>>
    /\ dropped' = {}
    /\ UNCHANGED <<stopped, stop_frame, opens, fi, ci, pass>>
    /\ UNCHANGED <<orch_vars, comm_vars, env_vars>>

\* A mutant of FeederBackoff: the handler rewinds the container before resuming.
FeederBackoffRewinds ==
    /\ f_pc = "backoff"
    /\ Goto("while")
    /\ pos' = SeekTarget
    /\ UNCHANGED <<stopped, stop_frame, opens, fi, ci, pass, sent, dropped>>
    /\ UNCHANGED <<orch_vars, comm_vars, env_vars>>

\* await asyncio.sleep(1) returns
FeederBackoff ==
    /\ f_pc = "backoff"
    /\ Goto("while")
    /\ UNCHANGED <<stopped, stop_frame, opens, pos, fi, ci, pass, sent, dropped>>
    /\ UNCHANGED <<orch_vars, comm_vars, env_vars>>

\* AudioStreamer.stop, called from another coroutine
stop ==
    /\ HasStreamer
    /\ FeederParked
    /\ ~stopped
    /\ stopped' = TRUE
    /\ stop_frame' = IF f_pc = "send" THEN <<pos - 1, fi>> ELSE <<0, 0>>
    /\ UNCHANGED <<f_pc, f_result, opens, closes, pos, fi, ci, pass, faults,
                   backoffs, sent, dropped>>
    /\ UNCHANGED <<orch_vars, comm_vars, env_vars>>

\* video_task.cancel(): CancelledError is raised at the await the task is parked in.
\* It is no Exception, so only the finally block handles it; a task cancelled before
\* its first step never runs.
CancelFeeder ==
    /\ FeederAwaiting
    /\ IF f_pc = "created"
       THEN /\ f_pc' = "done"
            /\ f_result' = "cancelled"
            /\ UNCHANGED <<closes, faults, backoffs>>
       ELSE Finally("cancelled")
    /\ UNCHANGED <<stopped, stop_frame, opens, pos, fi, ci, pass, sent, dropped>>
    /\ UNCHANGED <<orch_vars, comm_vars, env_vars>>

(***************************************************************************)
(* The voice session's connection, and the clock.                          *)
(***************************************************************************)
SinkDown ==
    /\ FeederParked
    /\ connected
    /\ connected' = FALSE
    /\ everDown' = TRUE
    /\ UNCHANGED <<video_path, media, session, detections, now>>
    /\ UNCHANGED <<orch_vars, feeder_vars, comm_vars>>

SinkUp ==
    /\ FeederParked
    /\ ~connected
    /\ connected' = TRUE
    /\ UNCHANGED <<video_path, media, session, everDown, detections, now>>
    /\ UNCHANGED <<orch_vars, feeder_vars, comm_vars>>

\* A detector reports something on the pitch. The agent is built with no
\* processor and subscribes to track-added events only, so no code runs.
DetectionEvent ==
    /\ session = "joined"
    /\ FeederParked
    /\ detections < MaxDetections
    /\ detections' = detections + 1
    /\ UNCHANGED <<video_path, media, connected, session, everDown, now>>
    /\ UNCHANGED <<orch_vars, feeder_vars, comm_vars>>

\* Time passes only when no sleep of run_commentary is due.
Tick ==
    /\ FeederParked
    /\ CommentaryAwaiting
    /\ c_pc # "created"
    /\ now < MaxTime
    /\ ~(CommentarySleeping /\ c_wake <= now)
    /\ now' = now + 1
    /\ slow' = (slow \/ c_pc \in {"opening", "regular"})
    /\ UNCHANGED <<video_path, media, connected, session, everDown, detections>>
    /\ UNCHANGED <<c_pc, c_result, c_wake, c_faults, calls, delivered>>
    /\ UNCHANGED <<orch_vars, feeder_vars>>

(***************************************************************************)
(* create_agent.run_commentary                                             *)
(***************************************************************************)
\* agent.simple_response(prompt) is called; run_commentary tests nothing before it.
CallPrompt(kind) ==
    /\ calls' = Append(calls, <<kind, now, connected>>)
    /\ c_pc' = kind

\* The task's first step: await asyncio.sleep(3)
CommentaryStart ==
    /\ c_pc = "created"
    /\ FeederParked
    /\ c_pc' = "startup"
    /\ c_wake' = now + STARTUP_DELAY
    /\ UNCHANGED <<c_result, c_faults, calls, delivered, slow>>
    /\ UNCHANGED <<orch_vars, feeder_vars, env_vars>>

\* asyncio.sleep(3) returns: await agent.simple_response(opening_prompt)
CommentaryOpening ==
    /\ c_pc = "startup"
    /\ FeederParked
    /\ now >= c_wake
    /\ CallPrompt("opening")
    /\ UNCHANGED <<c_result, c_wake, c_faults, delivered, slow>>
    /\ UNCHANGED <<orch_vars, feeder_vars, env_vars>>

\* The opening prompt is sent before the try block: its exception ends the task.
OpeningFault ==
    /\ c_pc' = "done"
    /\ c_result' = "error"
    /\ UNCHANGED c_wake

\* simple_response(opening_prompt) returns (await asyncio.sleep(5)) or raises
CommentaryOpened ==
    /\ c_pc = "opening"
    /\ FeederParked
    /\ \/ /\ delivered' = Append(delivered, <<"opening", now>>)
          /\ c_pc' = "settle"
          /\ c_wake' = now + SETTLE_DELAY
          /\ UNCHANGED <<c_result, c_faults>>
       \/ /\ c_faults < MaxCFaults
          /\ c_faults' = c_faults + 1
          /\ OpeningFault
          /\ UNCHANGED delivered
    /\ UNCHANGED <<calls, slow>>
    /\ UNCHANGED <<orch_vars, feeder_vars, env_vars>>

\* A sleep before a regular prompt returns (the settle delay, the interval or the
\* backoff): await agent.simple_response(random.choice(questions))
CommentaryRegular ==
    /\ c_pc \in {"settle", "interval", "backoff"}
    /\ FeederParked
    /\ now >= c_wake
    /\ CallPrompt("regular")
    /\ UNCHANGED <<c_result, c_wake, c_faults, delivered, slow>>
    /\ UNCHANGED <<orch_vars, feeder_vars, env_vars>>

\* except Exception as e: logger.error(...); await asyncio.sleep(2)
RegularFault ==
    /\ c_pc' = "backoff"
    /\ c_wake' = now + COMMENTARY_BACKOFF
    /\ UNCHANGED c_result

\* A mutant of IntervalAfter: the interval is counted from the previous wake-up.
IntervalAfterSkewed(t) == t + INTERVAL + 1

\* A mutant of IntervalAfter: the interval is counted from the start of the call.
IntervalFromCall(t) == calls[Len(calls)][2] + INTERVAL

\* await asyncio.sleep(4), started when the delivery returned at time t
IntervalAfter(t) == t + INTERVAL

\* simple_response(question) returns (await asyncio.sleep(4)) or raises
CommentaryDelivered ==
    /\ c_pc = "regular"
    /\ FeederParked
    /\ \/ /\ delivered' = Append(delivered, <<"regular", now>>)
          /\ c_pc' = "interval"
          /\ c_wake' = IntervalAfter(now)
          /\ UNCHANGED <<c_result, c_faults>>
       \/ /\ c_faults < MaxCFaults
          /\ c_faults' = c_faults + 1
          /\ RegularFault
          /\ UNCHANGED delivered
    /\ UNCHANGED <<calls, slow>>
    /\ UNCHANGED <<orch_vars, feeder_vars, env_vars>>

\* commentary_task.cancel(): inside the try block CancelledError is caught and the
\* loop is left (the task returns); elsewhere it propagates (the task is cancelled).
\* A mutant of CancelExit: inside the try block the generic handler takes the
\* CancelledError, as it did while CancelledError was an Exception.
CancelExitRetries(pc) == IF pc \in {"regular", "interval"} THEN "backoff" ELSE "done"

\* Where run_commentary is after a CancelledError raised at pc: break leaves the
\* loop and the function returns, or the error leaves the function.
CancelExit(pc) == "done"

CancelCommentary ==
    /\ CommentaryAwaiting
    /\ FeederParked
    /\ c_pc' = CancelExit(c_pc)
    /\ c_result' = IF c_pc \in {"regular", "interval"} THEN "returned" ELSE "cancelled"
    /\ UNCHANGED <<c_wake, c_faults, calls, delivered, slow>>
    /\ UNCHANGED <<orch_vars, feeder_vars, env_vars>>

(***************************************************************************)
(* Specifications.                                                         *)
(***************************************************************************)
Feeder ==
    \/ FeederStart
    \/ FeederWhile
    \/ FeederDemux
    \/ FeederDecode
    \/ FeederFrame
    \/ FeederResample
    \/ FeederChunk
    \/ FeederSend
    \/ FeederYield
    \/ FeederSeek
    \/ FeederBackoff

Commentary ==
    \/ CommentaryStart
    \/ CommentaryOpening
    \/ CommentaryOpened
    \/ CommentaryRegular
    \/ CommentaryDelivered

Next ==
    \/ TrackAdded
    \/ join_call
    \/ Feeder
    \/ stop
    \/ CancelFeeder
    \/ Commentary
    \/ CancelCommentary
    \/ SinkDown
    \/ SinkUp
    \/ DetectionEvent
    \/ Tick

\* The whole program.  Its two projections below are the specifications the
\* properties are checked under: the steps left out of each change none of the
\* variables the other coroutine reads.
Spec == Init /\ [][Next]_vars

\* The feeder and its environment: run_commentary is created and not scheduled.
NextFeeder ==
    \/ TrackAdded
    \/ join_call
    \/ Feeder
    \/ stop
    \/ CancelFeeder
    \/ SinkDown
    \/ SinkUp

SpecFeeder == Init /\ [][NextFeeder]_vars

\* The same, with every step of the feeder that stays possible eventually taken:
\* the event loop resumes a task whose await has returned.
SpecFeederFair == SpecFeeder /\ WF_vars(Feeder)

\* The commentary task and its environment: stream_to_gemini is created and not
\* scheduled.
NextCommentary ==
    \/ TrackAdded
    \/ join_call
    \/ Commentary
    \/ CancelCommentary
    \/ SinkDown
    \/ SinkUp
    \/ Tick

SpecCommentary == Init /\ [][NextCommentary]_vars

\* run_commentary up to the return of its opening prompt.
CommentaryToOpening ==
    \/ CommentaryStart
    \/ CommentaryOpening
    \/ CommentaryOpened

\* The clock during await asyncio.sleep(3).
StartupTick == Tick /\ c_pc = "startup"

\* Both coroutines on the event loop, the feeder looping without end, with the sink
\* as it was at the start and an opening prompt that returns within the second.
NextLive ==
    \/ on_track_added(TRACK_VIDEO)
    \/ Feeder
    \/ FeederSeekBeyond
    \/ stop
    \/ CommentaryToOpening
    \/ StartupTick

\* The event loop resumes every task whose await has returned: the feeder goes on
\* whenever it can, and run_commentary and the clock, which can take a step only
\* while the feeder is suspended, take it at one of the feeder's suspensions.
SpecLive ==
    /\ Init
    /\ [][NextLive]_vars
    /\ WF_vars(Feeder \/ FeederSeekBeyond)
    /\ SF_vars(CommentaryToOpening)
    /\ SF_vars(StartupTick)

\* The clock during the sleeps of run_commentary.
WaitTick == Tick /\ CommentarySleeping

\* Both coroutines of one session with every way either task can end, with the
\* sink as it was at the start and prompt deliveries that return within the second.
NextSession ==
    \/ on_track_added(TRACK_VIDEO)
    \/ Feeder
    \/ CancelFeeder
    \/ Commentary
    \/ CancelCommentary
    \/ WaitTick

SpecSession == Init /\ [][NextSession]_vars

\* The commentary task and detection events, with the sink as it was at the start.
NextDetection ==
    \/ TrackAdded
    \/ Commentary
    \/ DetectionEvent
    \/ Tick

SpecDetection == Init /\ [][NextDetection]_vars

(***************************************************************************)
(* Properties.                                                             *)
(***************************************************************************)
IsPrefix(s, t) == Len(s) <= Len(t) /\ \A k \in 1..Len(s) : s[k] = t[k]
NoFeederFault == faults = 0
FeederRan == media = "audio" /\ opens = 1

\* C1: over any sequence of track-added events at most one feeder task and at most
\* one commentary task is ever created; once a task handle is set, no later event
\* changes it.
C1_OneTaskOfEachKind ==
    /\ [](feeder_tasks <= 1 /\ commentary_tasks <= 1)
    /\ [][/\ video_task # 0 => video_task' = video_task
          /\ commentary_task # 0 => commentary_task' = commentary_task]_vars

\* C1: a second video track event was handled after both tasks were created.
C1_Witness ==
    /\ video_events = 2
    /\ feeder_tasks = 1
    /\ commentary_tasks = 1
    /\ video_task = 1
    /\ commentary_task = 1

\* C2: once join_call has returned, the feeder is stopped (flag set, or task over)
\* and the commentary task is over.
C2_SessionEndStopsBoth ==
    session = "ended" =>
        /\ stopped \/ f_pc \in {"none", "done"}
        /\ c_pc \in {"none", "done"}

\* C3: the opened source is closed exactly once on every way the feeder ends,
\* an error raised anywhere after the open included, and it is neither closed while
\* the loop runs nor closed twice.
C3_ClosedExactlyOnce ==
    /\ closes <= opens
    /\ opens <= 1
    /\ (f_pc = "done" /\ opens = 1) => closes = 1
    /\ f_pc \notin {"none", "created", "done"} => (opens = 1 /\ closes = 0)

\* C4: every fault in the feeder loop starts exactly one backoff wait, the wait is
\* followed by the outer loop (or ended by cancellation), and a feeder that entered
\* the loop ends only through stop() or cancellation.
C4_FaultNeverEndsFeeder ==
    /\ [](backoffs = faults)
    /\ []((f_pc = "done" /\ FeederRan) => (stopped \/ f_result = "cancelled"))
    /\ [][faults' > faults => f_pc' = "backoff"]_vars
    /\ [][(f_pc = "backoff" /\ f_pc' # "backoff") =>
             (f_pc' = "while" \/ f_result' = "cancelled")]_vars

\* C4: after two faults and two backoffs the feeder is sending again.
C4_Witness ==
    /\ faults = 2
    /\ backoffs = 2
    /\ f_pc = "send"
    /\ ~stopped

\* C5: no prompt-delivery fault, of the opening or of a regular prompt, ends the
\* commentary task.
C5_DeliveryFaultNeverEndsTask == c_result # "error"

\* C6: with the sink connected throughout and no fault, the chunks sent in every
\* pass are a prefix of c1..cN in order, and a pass that reaches the end of the
\* stream without a stop request has sent all of c1..cN: what is sent is a prefix
\* of c1..cN repeated.
C6_SentIsPrefixOfRepetition ==
    (media = "audio" /\ ~everDown /\ NoFeederFault) =>
        /\ IsPrefix(sent, Chunks)
        /\ (f_pc = "seek" /\ ~stopped) => sent = Chunks

\* C6: after two seeks a third full pass was sent, without fault or disconnection.
C6_Witness ==
    /\ ~everDown
    /\ NoFeederFault
    /\ ~stopped
    /\ pass = 2
    /\ f_pc = "seek"
    /\ sent = Chunks

\* C7: for a source without audio track the feeder sends nothing, never enters the
\* loop, and once it has run the source is closed and the task has returned.
C7_NoAudioSendsNothing ==
    media = "noaudio" =>
        /\ sent = <<>>
        /\ f_pc \in {"none", "created", "done"}
        /\ opens = 1 => (f_pc = "done" /\ f_result = "returned" /\ closes = 1)

\* C7: the feeder ran on a source without audio, with stop requested and the sink
\* disconnected.
C7_Witness ==
    /\ media = "noaudio"
    /\ opens = 1
    /\ f_pc = "done"
    /\ stopped
    /\ ~connected

\* C8: a chunk is handed to the sink only while the session is connected; a chunk
\* dropped in a pass is not sent in that pass, and no chunk is sent twice in a pass.
C8_SendOnlyWhenConnected ==
    /\ [](\A k \in 1..Len(sent) : sent[k] \notin dropped)
    /\ [](\A j, k \in 1..Len(sent) : sent[j] = sent[k] => j = k)
    /\ [][Len(sent') > Len(sent) => connected]_vars

\* C8: in one pass a chunk was dropped and a later chunk was sent.
C8_Witness == \E d \in dropped : \E k \in 1..Len(sent) : sent[k] > d

\* C9: every prompt-delivery call is made while the voice session is connected.
C9_PromptOnlyWhenConnected == \A k \in 1..Len(calls) : calls[k][3]

\* The time the k-th delivery of the periodic schedule is due.
ScheduledTime(k) ==
    IF k = 1 THEN STARTUP_DELAY
    ELSE STARTUP_DELAY + SETTLE_DELAY + (k - 2) * INTERVAL

\* C10: with fault-free instantaneous delivery the opening prompt is delivered once,
\* first, at t=3, and the k-th regular prompt at t=8+(k-1)*4; unless the task was
\* cancelled, no scheduled delivery is overdue.
C10_PeriodicSchedule ==
    (c_faults = 0 /\ ~slow) =>
        /\ \A k \in 1..Len(delivered) :
              delivered[k] = <<IF k = 1 THEN "opening" ELSE "regular", ScheduledTime(k)>>
        /\ CommentarySleeping \/ c_pc \in {"opening", "regular"} =>
              \A k \in 1..(Len(delivered) + 1) :
                  ScheduledTime(k) < now => Len(delivered) >= k

\* C10: the opening and three regular prompts were delivered on schedule.
C10_Witness ==
    /\ c_faults = 0
    /\ ~slow
    /\ Len(delivered) = 4
    /\ delivered[4] = <<"regular", 16>>

\* C11: a cancellation of the commentary task at any of its awaits ends the task
\* there: afterwards no prompt delivery is started and none returns, and a backoff
\* in progress is not waited out.
C11_CancelEndsCommentary ==
    /\ [](c_result \in {"returned", "cancelled"} => c_pc = "done")
    /\ [][c_pc = "done" =>
             (c_pc' = "done" /\ calls' = calls /\ delivered' = delivered)]_vars
    /\ [][(c_pc # "done" /\ c_pc' = "done") => (now' = now /\ calls' = calls)]_vars

\* C11: the task was cancelled in the backoff after a failed regular prompt, before
\* the backoff was over.
C11_Witness ==
    /\ c_pc = "done"
    /\ c_result = "cancelled"
    /\ c_faults = 1
    /\ delivered # <<>>
    /\ now < c_wake

\* C12: once stop() is called the feeder hands over only chunks of the frame it was
\* sending at that moment, processes no further frame and starts no pass; if its
\* pending awaits return, its task ends.
C12_StopEndsFeeder ==
    /\ [][(stopped /\ Len(sent') > Len(sent)) => <<pos - 1, fi>> = stop_frame]_vars
    /\ [](stopped => /\ f_pc \notin {"decode", "resample"}
                     /\ ~(f_pc = "demux" /\ pos = SeekTarget))
    /\ (stopped /\ f_pc # "none") ~> (f_pc = "done")

\* C12: stop() came while the first chunk of a frame was being sent; the second
\* chunk of that frame was still sent, the next frame and packet were not, and the
\* feeder has left the packet loop.
C12_Witness ==
    /\ stopped
    /\ stop_frame = <<1, 1>>
    /\ f_pc = "seek"
    /\ sent = <<1, 2>>
    /\ faults = 0

\* C13: a failure of av.open at feeder startup makes the session fail.
C13_OpenFailureFailsSession ==
    (f_pc = "done" /\ f_result = "error" /\ opens = 0) => session = "failed"

\* C14: within a pass the chunks handed to the sink are in strictly increasing
\* source order, whatever faults and disconnections occur, and a chunk is handed
\* over only when no send is outstanding.
C14_NoReordering ==
    /\ [](\A j, k \in 1..Len(sent) : j < k => sent[j] < sent[k])
    /\ [][Len(sent') > Len(sent) =>
             (f_pc # "send" /\ f_pc' = "send" /\ Len(sent') = Len(sent) + 1)]_vars

\* C14: in a later pass, after a fault and with a chunk dropped, two chunks were sent.
C14_Witness ==
    /\ pass >= 1
    /\ faults >= 1
    /\ dropped # {}
    /\ Len(sent) >= 2

\* C15: commentary is driven by detection events: a prompt is delivered only in
\* answer to a detection event (the opening to the first, a regular prompt to a
\* qualifying event after the cooldown that the debouncer grants), so there are
\* never more prompt deliveries than detection events.
C15_PromptsAnswerDetections == Len(calls) <= detections

\* C16: a track-added event of another type than video creates no task and changes
\* neither task handle, neither task and not the stop flag.
C16_AudioTrackStartsNothing ==
    [][(last_track' = TRACK_AUDIO /\ last_track # TRACK_AUDIO) =>
          UNCHANGED <<video_task, commentary_task, feeder_tasks, commentary_tasks,
                      video_events, stopped, f_pc, c_pc>>]_vars

\* C16: an audio track event was handled after both tasks had been started.
C16_Witness ==
    /\ last_track = TRACK_AUDIO
    /\ video_task = 1
    /\ commentary_task = 1
    /\ f_pc = "send"

\* C17: after the frames of a packet the feeder suspends, also when nothing was
\* sent; so while it loops for ever the feeder is suspended again and again, a
\* created commentary task gets its opening prompt delivered (or the delivery
\* fails), and a stop() that was issued ends the feeder.
C17_FeederDoesNotStarve ==
    /\ [][(f_pc = "frame" /\ f_pc' # "resample") => f_pc' = "yield"]_vars
    /\ []<>FeederParked
    /\ (c_pc = "created") ~> (delivered # <<>> \/ c_result = "error")
    /\ (stopped /\ f_pc # "none") ~> (f_pc = "done")

\* C17: with the sink disconnected from the start the feeder has gone round the
\* source more often than is counted, without one send, and the opening prompt
\* was delivered.
C17_Witness ==
    /\ ~connected
    /\ pass = MaxPasses
    /\ f_pc = "yield"
    /\ dropped # {}
    /\ delivered # <<>>

\* C18: whatever became of the feeder (none created, no audio track, open failure,
\* backoff, running), the first video track event starts the commentary task, no
\* step of the feeder changes the commentary task's state, a due step of the
\* commentary task can be taken whenever the feeder is suspended or gone, and with
\* fault-free delivery the prompts are the scheduled ones.
C18_CommentaryIndependentOfFeeder ==
    /\ [](video_events >= 1 => (commentary_tasks = 1 /\ commentary_task = 1))
    /\ [][(f_pc # "none" /\ feeder_vars' # feeder_vars) => comm_vars' = comm_vars]_vars
    /\ []((FeederParked /\ CommentarySleeping /\ c_wake <= now) => ENABLED Commentary)
    /\ [](c_faults = 0 =>
            \A k \in 1..Len(calls) :
                /\ calls[k][1] = (IF k = 1 THEN "opening" ELSE "regular")
                /\ calls[k][2] = ScheduledTime(k))

\* C18: the feeder was in its fault backoff for the second time when the opening
\* and two regular prompts had been called on schedule.
C18_Witness ==
    /\ f_pc = "backoff"
    /\ faults = 2
    /\ c_faults = 0
    /\ Len(calls) = 3

\* C19: a prompt-delivery call starts only from a completed wait, so never while
\* another is outstanding; every call returns, fails or is pending, none is skipped;
\* the wait after a call is counted from the call's return, however long it took.
C19_DeliveriesSeparatedByWaits ==
    /\ [][Len(calls') > Len(calls) =>
             (CommentarySleeping /\ now >= c_wake /\ Len(calls') = Len(calls) + 1)]_vars
    /\ [][(c_pc' = "backoff" /\ c_pc # "backoff") =>
             (c_pc = "regular" /\ c_wake' = now + COMMENTARY_BACKOFF)]_vars
    /\ [](/\ Len(delivered) + c_faults <= Len(calls)
          /\ Len(calls) <= Len(delivered) + c_faults + 1)
    /\ [](c_faults = 0 =>
            \A k \in 1..Len(delivered) :
                /\ delivered[k][2] >= calls[k][2]
                /\ k < Len(calls) =>
                      calls[k + 1][2] =
                          delivered[k][2] + (IF k = 1 THEN SETTLE_DELAY ELSE INTERVAL))

\* C19: a regular delivery took time to return and the next call was made.
C19_Witness ==
    /\ c_faults = 0
    /\ Len(calls) >= 3
    /\ Len(delivered) >= 2
    /\ delivered[2][2] > calls[2][2]
\* C20: a task that has ended stays ended and keeps its handle: no later event
\* creates another, so over the whole session each handle names the one task of
\* its kind that was ever created.
C20_NoReplacementTask ==
    /\ [][f_pc = "done" =>
             /\ f_pc' = "done"
             /\ video_task' = video_task
             /\ feeder_tasks' = feeder_tasks]_vars
    /\ [][c_pc = "done" =>
             /\ c_pc' = "done"
             /\ commentary_task' = commentary_task
             /\ commentary_tasks' = commentary_tasks]_vars
    /\ [](video_task = feeder_tasks /\ commentary_task = commentary_tasks)

\* C20: the feeder failed to open its source, the opening prompt failed, and two
\* video track events were handled.
C20_Witness ==
    /\ video_events = 2
    /\ f_pc = "done"
    /\ f_result = "error"
    /\ c_pc = "done"
    /\ c_result = "error"
    /\ feeder_tasks = 1
    /\ commentary_tasks = 1

====
